---- MODULE Spec2Model ----
(***************************************************************************)
(* WrikeApp (universal_mcp_wrike/app.py): a facade with one method per     *)
(* endpoint of the Wrike REST API.  Every method validates its required    *)
(* arguments, builds the query parameters / body by dropping the entries   *)
(* that are None, issues one HTTP call through the transport of its base   *)
(* class, checks the status of the response and returns the decoded body.  *)
(*                                                                         *)
(* Python values are records tagged with their type; a dict is the         *)
(* sequence of its <<key, value>> items in insertion order; a text (URL,   *)
(* message, response body) is the sequence of its pieces, cut at the       *)
(* separators the properties look at.                                      *)
(***************************************************************************)
EXTENDS Integers, Sequences, FiniteSets, TLC

VARIABLES
    base_url,   \* self.base_url
    pc,         \* position of the current invocation
    op,         \* the method being invoked
    args,       \* its arguments, by parameter name
    request,    \* the HTTP call handed to the transport
    response,   \* the response the transport gave back
    outcome,    \* what the invocation gave its caller: a value or an exception
    calls,      \* HTTP calls issued by the current invocation
    nPassed,    \* invocations that passed validation so far
    nHttp,      \* HTTP calls issued so far
    prev,       \* history: an earlier invocation as it ended (kept by SpecHist only)
    boot        \* server.py: the module's globals and how far its loading got (SpecBoot only)

vars == <<base_url, pc, op, args, request, response, outcome, calls, nPassed, nHttp, prev, boot>>

\* ------------------------------------------------------------------ bounds

\* HTTP calls in one behaviour
MaxCalls == 2

\* optional arguments given together in one invocation (besides: all of them)
MaxPresent == 1

\* ------------------------------------------------------------------ values

None == [ty |-> "NoneType"]

Str(s) == [ty |-> "str", s |-> s]

Bool(b) == [ty |-> "bool", b |-> b]

Dict(items) == [ty |-> "dict", items |-> items]

PyInt(i) == [ty |-> "int", i |-> i]

List(elems) == [ty |-> "list", elems |-> elems]

\* the values that are false in a condition without being None
FalsyValues == {Bool(FALSE), PyInt(0), Str(""), List(<<>>), Dict(<<>>)}

Unset == [ty |-> "unset"]

NoOp == <<>>

Range(seq) == {seq[i] : i \in 1..Len(seq)}

Keys(items) == {items[i][1] : i \in 1..Len(items)}

\* str(v), as an f-string renders a replacement field
Format(v) ==
    CASE v.ty = "str" -> <<v.s>>
      [] v.ty = "bool" -> IF v.b THEN <<"True">> ELSE <<"False">>
      [] v.ty = "NoneType" -> <<"None">>
      [] v.ty = "dict" -> <<"{...}">>
      [] v.ty = "int" -> <<ToString(v.i)>>
      [] v.ty = "list" -> <<"[...]">>

\* the filter written `if v`
IsNotNone_truthy(kv) == kv[2] # None /\ kv[2] \notin FalsyValues

\* the filter `if v is not None` of the comprehensions
IsNotNone(kv) == kv[2] # None

\* the comprehension cleaning the mappings among the values too
DictComp_deep(items) ==
    LET kept == SelectSeq(items, IsNotNone)
    IN  Dict([i \in 1..Len(kept) |->
                <<kept[i][1],
                  IF kept[i][2].ty = "dict"
                  THEN Dict(SelectSeq(kept[i][2].items, IsNotNone))
                  ELSE kept[i][2]>>])

\* the comprehension without its filter
DictComp_keep_none(items) == Dict(items)

\* {k: v for k, v in <items> if v is not None}
DictComp(items) == Dict(SelectSeq(items, IsNotNone))

\* ------------------------------------------------------------------ exceptions and transport

ValueError(msg) == [ty |-> "ValueError", msg |-> msg]

HTTPStatusError(r) == [ty |-> "HTTPStatusError", status_code |-> r.status_code]

JSONDecodeError == [ty |-> "JSONDecodeError"]

\* what an operation does up to and including its self._<verb>(...) line:
\* it raises, or it hands one request to the transport
Raise(e) == [kind |-> "raise", exc |-> e]

Send(verb, url, params, data) ==
    [kind |-> "call",
     request |-> [verb |-> verb, url |-> url, params |-> params, data |-> data]]

_get(url, params) == Send("GET", url, params, Unset)

_post(url, data, params) == Send("POST", url, params, data)

_put(url, data, params) == Send("PUT", url, params, data)

_delete(url, params) == Send("DELETE", url, params, Unset)

\* ------------------------------------------------------------------ WrikeApp

\* WrikeApp.__init__
BaseUrl == "https://www.wrike.com/api/v4"

get_contacts(a) ==
    LET url == <<base_url, "/", "contacts">>
        query_params == DictComp(<<
            <<"deleted", a.deleted>>,
            <<"fields", a.fields>>,
            <<"metadata", a.metadata>> >>)
    IN  _get(url, query_params)

get_contacts_by_contactid(a) ==
    IF a.contactId = None
    THEN Raise(ValueError(<<"Missing required parameter ", "'", "contactId", "'">>))
    ELSE
    LET url == <<base_url, "/", "contacts", "/">> \o Format(a.contactId)
        query_params == DictComp(<<
            <<"fields", a.fields>> >>)
    IN  _get(url, query_params)

put_contacts_by_contactid(a) ==
    IF a.contactId = None
    THEN Raise(ValueError(<<"Missing required parameter ", "'", "contactId", "'">>))
    ELSE
    LET request_body_0 == Dict(<<
            <<"metadata", a.metadata>>,
            <<"currentBillRate", a.currentBillRate>>,
            <<"currentCostRate", a.currentCostRate>>,
            <<"jobRoleId", a.jobRoleId>>,
            <<"customFields", a.customFields>>,
            <<"fields", a.fields>> >>)
        request_body == DictComp(request_body_0.items)
        url == <<base_url, "/", "contacts", "/">> \o Format(a.contactId)
        query_params == Dict(<<>>)
    IN  _put(url, request_body, query_params)

get_users_by_userid(a) ==
    IF a.userId = None
    THEN Raise(ValueError(<<"Missing required parameter ", "'", "userId", "'">>))
    ELSE
    LET url == <<base_url, "/", "users", "/">> \o Format(a.userId)
        query_params == Dict(<<>>)
    IN  _get(url, query_params)

\* put_users_by_userid addressing the contacts resource
put_users_by_userid_contacts_path(a) ==
    IF a.userId = None
    THEN Raise(ValueError(<<"Missing required parameter ", "'", "userId", "'">>))
    ELSE
    LET request_body_0 == Dict(<<
            <<"profile", a.profile>> >>)
        request_body == DictComp(request_body_0.items)
        url == <<base_url, "/", "contacts", "/">> \o Format(a.userId)
        query_params == Dict(<<>>)
    IN  _put(url, request_body, query_params)

put_users_by_userid(a) ==
    IF a.userId = None
    THEN Raise(ValueError(<<"Missing required parameter ", "'", "userId", "'">>))
    ELSE
    LET request_body_0 == Dict(<<
            <<"profile", a.profile>> >>)
        request_body == DictComp(request_body_0.items)
        url == <<base_url, "/", "users", "/">> \o Format(a.userId)
        query_params == Dict(<<>>)
    IN  _put(url, request_body, query_params)

get_groups(a) ==
    LET url == <<base_url, "/", "groups">>
        query_params == DictComp(<<
            <<"metadata", a.metadata>>,
            <<"pageSize", a.pageSize>>,
            <<"pageToken", a.pageToken>>,
            <<"fields", a.fields>> >>)
    IN  _get(url, query_params)


\* post_groups dropping what is falsy, an empty title included, from its body
post_groups_truthy_body(a) ==
    IF a.title = None
    THEN Raise(ValueError(<<"Missing required parameter ", "'", "title", "'">>))
    ELSE
    LET request_body_0 == Dict(<<
            <<"title", a.title>>,
            <<"members", a.members>>,
            <<"parent", a.parent>>,
            <<"avatar", a.avatar>>,
            <<"metadata", a.metadata>> >>)
        request_body == Dict(SelectSeq(request_body_0.items, IsNotNone_truthy))
        url == <<base_url, "/", "groups">>
        query_params == Dict(<<>>)
    IN  _post(url, request_body, query_params)

post_groups(a) ==
    IF a.title = None
    THEN Raise(ValueError(<<"Missing required parameter ", "'", "title", "'">>))
    ELSE
    LET request_body_0 == Dict(<<
            <<"title", a.title>>,
            <<"members", a.members>>,
            <<"parent", a.parent>>,
            <<"avatar", a.avatar>>,
            <<"metadata", a.metadata>> >>)
        request_body == DictComp(request_body_0.items)
        url == <<base_url, "/", "groups">>
        query_params == Dict(<<>>)
    IN  _post(url, request_body, query_params)


\* get_groups_by_groupid repeating the identifier among its query parameters
get_groups_by_groupid_keyed(a) ==
    IF a.groupId = None
    THEN Raise(ValueError(<<"Missing required parameter ", "'", "groupId", "'">>))
    ELSE
    LET url == <<base_url, "/", "groups", "/">> \o Format(a.groupId)
        query_params == DictComp(<<
            <<"groupId", a.groupId>>,
            <<"fields", a.fields>> >>)
    IN  _get(url, query_params)

get_groups_by_groupid(a) ==
    IF a.groupId = None
    THEN Raise(ValueError(<<"Missing required parameter ", "'", "groupId", "'">>))
    ELSE
    LET url == <<base_url, "/", "groups", "/">> \o Format(a.groupId)
        query_params == DictComp(<<
            <<"fields", a.fields>> >>)
    IN  _get(url, query_params)

put_groups_by_groupid(a) ==
    IF a.groupId = None
    THEN Raise(ValueError(<<"Missing required parameter ", "'", "groupId", "'">>))
    ELSE
    LET request_body_0 == Dict(<<
            <<"title", a.title>>,
            <<"addMembers", a.addMembers>>,
            <<"removeMembers", a.removeMembers>>,
            <<"addInvitations", a.addInvitations>>,
            <<"removeInvitations", a.removeInvitations>>,
            <<"parent", a.parent>>,
            <<"avatar", a.avatar>>,
            <<"metadata", a.metadata>> >>)
        request_body == DictComp(request_body_0.items)
        url == <<base_url, "/", "groups", "/">> \o Format(a.groupId)
        query_params == Dict(<<>>)
    IN  _put(url, request_body, query_params)

\* delete_groups_by_groupid validating with `if not groupId`
delete_groups_by_groupid_truthy(a) ==
    IF a.groupId = None \/ a.groupId \in FalsyValues
    THEN Raise(ValueError(<<"Missing required parameter ", "'", "groupId", "'">>))
    ELSE
    LET url == <<base_url, "/", "groups", "/">> \o Format(a.groupId)
        query_params == Dict(<<>>)
    IN  _delete(url, query_params)

delete_groups_by_groupid(a) ==
    IF a.groupId = None
    THEN Raise(ValueError(<<"Missing required parameter ", "'", "groupId", "'">>))
    ELSE
    LET url == <<base_url, "/", "groups", "/">> \o Format(a.groupId)
        query_params == Dict(<<>>)
    IN  _delete(url, query_params)

\* put_groups_bulk without its check of members
put_groups_bulk_unchecked(a) ==
    LET request_body_0 == Dict(<<
            <<"members", a.members>> >>)
        request_body == DictComp(request_body_0.items)
        url == <<base_url, "/", "groups_bulk">>
        query_params == Dict(<<>>)
    IN  _put(url, request_body, query_params)

put_groups_bulk(a) ==
    IF a.members = None
    THEN Raise(ValueError(<<"Missing required parameter ", "'", "members", "'">>))
    ELSE
    LET request_body_0 == Dict(<<
            <<"members", a.members>> >>)
        request_body == DictComp(request_body_0.items)
        url == <<base_url, "/", "groups_bulk">>
        query_params == Dict(<<>>)
    IN  _put(url, request_body, query_params)

get_invitations(a) ==
    LET url == <<base_url, "/", "invitations">>
        query_params == Dict(<<>>)
    IN  _get(url, query_params)

post_invitations(a) ==
    IF a.email = None
    THEN Raise(ValueError(<<"Missing required parameter ", "'", "email", "'">>))
    ELSE
    LET request_body_0 == Dict(<<
            <<"email", a.email>>,
            <<"firstName", a.firstName>>,
            <<"lastName", a.lastName>>,
            <<"role", a.role>>,
            <<"external", a.external>>,
            <<"subject", a.subject>>,
            <<"message", a.message>>,
            <<"userTypeId", a.userTypeId>> >>)
        request_body == DictComp(request_body_0.items)
        url == <<base_url, "/", "invitations">>
        query_params == Dict(<<>>)
    IN  _post(url, request_body, query_params)

put_invitations_by_invitationid(a) ==
    IF a.invitationId = None
    THEN Raise(ValueError(<<"Missing required parameter ", "'", "invitationId", "'">>))
    ELSE
    LET request_body_0 == Dict(<<
            <<"resend", a.resend>>,
            <<"role", a.role>>,
            <<"external", a.external>>,
            <<"userTypeId", a.userTypeId>> >>)
        request_body == DictComp(request_body_0.items)
        url == <<base_url, "/", "invitations", "/">> \o Format(a.invitationId)
        query_params == Dict(<<>>)
    IN  _put(url, request_body, query_params)

\* delete_invitations_by_invitationid calling self._get
delete_invitations_by_invitationid_as_get(a) ==
    IF a.invitationId = None
    THEN Raise(ValueError(<<"Missing required parameter ", "'", "invitationId", "'">>))
    ELSE
    LET url == <<base_url, "/", "invitations", "/">> \o Format(a.invitationId)
        query_params == Dict(<<>>)
    IN  _get(url, query_params)

delete_invitations_by_invitationid(a) ==
    IF a.invitationId = None
    THEN Raise(ValueError(<<"Missing required parameter ", "'", "invitationId", "'">>))
    ELSE
    LET url == <<base_url, "/", "invitations", "/">> \o Format(a.invitationId)
        query_params == Dict(<<>>)
    IN  _delete(url, query_params)


\* get_a_ccount insisting on its fields argument
get_a_ccount_fields_required(a) ==
    IF a.fields = None
    THEN Raise(ValueError(<<"Missing required parameter ", "'", "fields", "'">>))
    ELSE
    LET url == <<base_url, "/", "account">>
        query_params == DictComp(<<
            <<"fields", a.fields>> >>)
    IN  _get(url, query_params)

get_a_ccount(a) ==
    LET url == <<base_url, "/", "account">>
        query_params == DictComp(<<
            <<"fields", a.fields>> >>)
    IN  _get(url, query_params)


\* put_a_ccount refusing an update that has nothing to update
put_a_ccount_refuse_empty(a) ==
    LET request_body_0 == Dict(<<
            <<"metadata", a.metadata>> >>)
        request_body == DictComp(request_body_0.items)
        url == <<base_url, "/", "account">>
        query_params == Dict(<<>>)
    IN  IF request_body = Dict(<<>>)
        THEN Raise(ValueError(<<"Nothing to update">>))
        ELSE _put(url, request_body, query_params)

put_a_ccount(a) ==
    LET request_body_0 == Dict(<<
            <<"metadata", a.metadata>> >>)
        request_body == DictComp(request_body_0.items)
        url == <<base_url, "/", "account">>
        query_params == Dict(<<>>)
    IN  _put(url, request_body, query_params)

\* get_workflows with a URL that does not start from self.base_url
get_workflows_other_host(a) ==
    LET url == <<"https://app-eu.wrike.com/api/v4", "/", "workflows">>
        query_params == Dict(<<>>)
    IN  _get(url, query_params)

get_workflows(a) ==
    LET url == <<base_url, "/", "workflows">>
        query_params == Dict(<<>>)
    IN  _get(url, query_params)

\* post_workflows filtering the caller's request_body like a built one
post_workflows_filtered(a) ==
    LET url == <<base_url, "/", "workflows">>
        query_params == DictComp(<<
            <<"name", a.name>> >>)
        request_body == IF a.request_body.ty = "dict"
                        THEN DictComp(a.request_body.items)
                        ELSE a.request_body
    IN  _post(url, request_body, query_params)

post_workflows(a) ==
    LET url == <<base_url, "/", "workflows">>
        query_params == DictComp(<<
            <<"name", a.name>> >>)
    IN  _post(url, a.request_body, query_params)

put_workflows_by_workflowid(a) ==
    IF a.workflowId = None
    THEN Raise(ValueError(<<"Missing required parameter ", "'", "workflowId", "'">>))
    ELSE
    LET url == <<base_url, "/", "workflows", "/">> \o Format(a.workflowId)
        query_params == DictComp(<<
            <<"name", a.name>>,
            <<"hidden", a.hidden>> >>)
    IN  _put(url, a.request_body, query_params)

get_customfields(a) ==
    LET url == <<base_url, "/", "customfields">>
        query_params == Dict(<<>>)
    IN  _get(url, query_params)

\* post_customfields checking type before title
post_customfields_type_first(a) ==
    IF a.type = None
    THEN Raise(ValueError(<<"Missing required parameter ", "'", "type", "'">>))
    ELSE
    IF a.title = None
    THEN Raise(ValueError(<<"Missing required parameter ", "'", "title", "'">>))
    ELSE
    LET url == <<base_url, "/", "customfields">>
        query_params == DictComp(<<
            <<"title", a.title>>,
            <<"type", a.type>>,
            <<"spaceId", a.spaceId>>,
            <<"sharing", a.sharing>>,
            <<"shareds", a.shareds>>,
            <<"settings", a.settings>> >>)
    IN  _post(url, a.request_body, query_params)

post_customfields(a) ==
    IF a.title = None
    THEN Raise(ValueError(<<"Missing required parameter ", "'", "title", "'">>))
    ELSE
    IF a.type = None
    THEN Raise(ValueError(<<"Missing required parameter ", "'", "type", "'">>))
    ELSE
    LET url == <<base_url, "/", "customfields">>
        query_params == DictComp(<<
            <<"title", a.title>>,
            <<"type", a.type>>,
            <<"spaceId", a.spaceId>>,
            <<"sharing", a.sharing>>,
            <<"shareds", a.shareds>>,
            <<"settings", a.settings>> >>)
    IN  _post(url, a.request_body, query_params)

get_customfields_by_customfieldid(a) ==
    IF a.customFieldId = None
    THEN Raise(ValueError(<<"Missing required parameter ", "'", "customFieldId", "'">>))
    ELSE
    LET url == <<base_url, "/", "customfields", "/">> \o Format(a.customFieldId)
        query_params == Dict(<<>>)
    IN  _get(url, query_params)


\* put_customfields_by_customfieldid sending its fields as the body, like the other updates
put_customfields_by_customfieldid_in_body(a) ==
    IF a.customFieldId = None
    THEN Raise(ValueError(<<"Missing required parameter ", "'", "customFieldId", "'">>))
    ELSE
    LET url == <<base_url, "/", "customfields", "/">> \o Format(a.customFieldId)
        request_body == DictComp(<<
            <<"title", a.title>>,
            <<"type", a.type>>,
            <<"changeScope", a.changeScope>>,
            <<"spaceId", a.spaceId>>,
            <<"sharing", a.sharing>>,
            <<"addShareds", a.addShareds>>,
            <<"removeShareds", a.removeShareds>>,
            <<"settings", a.settings>>,
            <<"addMirrors", a.addMirrors>>,
            <<"removeMirrors", a.removeMirrors>> >>)
    IN  _put(url, request_body, Dict(<<>>))

put_customfields_by_customfieldid(a) ==
    IF a.customFieldId = None
    THEN Raise(ValueError(<<"Missing required parameter ", "'", "customFieldId", "'">>))
    ELSE
    LET url == <<base_url, "/", "customfields", "/">> \o Format(a.customFieldId)
        query_params == DictComp(<<
            <<"title", a.title>>,
            <<"type", a.type>>,
            <<"changeScope", a.changeScope>>,
            <<"spaceId", a.spaceId>>,
            <<"sharing", a.sharing>>,
            <<"addShareds", a.addShareds>>,
            <<"removeShareds", a.removeShareds>>,
            <<"settings", a.settings>>,
            <<"addMirrors", a.addMirrors>>,
            <<"removeMirrors", a.removeMirrors>> >>)
    IN  _put(url, Dict(<<>>), query_params)

delete_customfields_by_customfieldid(a) ==
    IF a.customFieldId = None
    THEN Raise(ValueError(<<"Missing required parameter ", "'", "customFieldId", "'">>))
    ELSE
    LET url == <<base_url, "/", "customfields", "/">> \o Format(a.customFieldId)
        query_params == Dict(<<>>)
    IN  _delete(url, query_params)

get_folders(a) ==
    LET url == <<base_url, "/", "folders">>
        query_params == DictComp(<<
            <<"permalink", a.permalink>>,
            <<"descendants", a.descendants>>,
            <<"metadata", a.metadata>>,
            <<"customFields", a.customFields>>,
            <<"updatedDate", a.updatedDate>>,
            <<"withInvitations", a.withInvitations>>,
            <<"project", a.project>>,
            <<"deleted", a.deleted>>,
            <<"contractTypes", a.contractTypes>>,
            <<"plainTextCustomFields", a.plainTextCustomFields>>,
            <<"customItemTypes", a.customItemTypes>>,
            <<"pageSize", a.pageSize>>,
            <<"nextPageToken", a.nextPageToken>>,
            <<"fields", a.fields>> >>)
    IN  _get(url, query_params)

get_folders_by_folderid_folders(a) ==
    IF a.folderId = None
    THEN Raise(ValueError(<<"Missing required parameter ", "'", "folderId", "'">>))
    ELSE
    LET url == <<base_url, "/", "folders", "/">> \o Format(a.folderId) \o <<"/", "folders">>
        query_params == DictComp(<<
            <<"permalink", a.permalink>>,
            <<"descendants", a.descendants>>,
            <<"metadata", a.metadata>>,
            <<"customFields", a.customFields>>,
            <<"updatedDate", a.updatedDate>>,
            <<"withInvitations", a.withInvitations>>,
            <<"project", a.project>>,
            <<"contractTypes", a.contractTypes>>,
            <<"plainTextCustomFields", a.plainTextCustomFields>>,
            <<"customItemTypes", a.customItemTypes>>,
            <<"pageSize", a.pageSize>>,
            <<"nextPageToken", a.nextPageToken>>,
            <<"fields", a.fields>> >>)
    IN  _get(url, query_params)

post_folders_by_folderid_folders(a) ==
    IF a.folderId = None
    THEN Raise(ValueError(<<"Missing required parameter ", "'", "folderId", "'">>))
    ELSE
    IF a.title = None
    THEN Raise(ValueError(<<"Missing required parameter ", "'", "title", "'">>))
    ELSE
    LET request_body_0 == Dict(<<
            <<"title", a.title>>,
            <<"description", a.description>>,
            <<"shareds", a.shareds>>,
            <<"metadata", a.metadata>>,
            <<"customFields", a.customFields>>,
            <<"customColumns", a.customColumns>>,
            <<"project", a.project>>,
            <<"userAccessRoles", a.userAccessRoles>>,
            <<"withInvitations", a.withInvitations>>,
            <<"customItemTypeId", a.customItemTypeId>>,
            <<"plainTextCustomFields", a.plainTextCustomFields>>,
            <<"fields", a.fields>> >>)
        request_body == DictComp(request_body_0.items)
        url == <<base_url, "/", "folders", "/">> \o Format(a.folderId) \o <<"/", "folders">>
        query_params == Dict(<<>>)
    IN  _post(url, request_body, query_params)

delete_folders_by_folderid(a) ==
    IF a.folderId = None
    THEN Raise(ValueError(<<"Missing required parameter ", "'", "folderId", "'">>))
    ELSE
    LET url == <<base_url, "/", "folders", "/">> \o Format(a.folderId)
        query_params == Dict(<<>>)
    IN  _delete(url, query_params)

put_folders_by_folderid(a) ==
    IF a.folderId = None
    THEN Raise(ValueError(<<"Missing required parameter ", "'", "folderId", "'">>))
    ELSE
    LET request_body_0 == Dict(<<
            <<"title", a.title>>,
            <<"description", a.description>>,
            <<"addParents", a.addParents>>,
            <<"removeParents", a.removeParents>>,
            <<"addShareds", a.addShareds>>,
            <<"removeShareds", a.removeShareds>>,
            <<"metadata", a.metadata>>,
            <<"restore", a.restore>>,
            <<"customFields", a.customFields>>,
            <<"customColumns", a.customColumns>>,
            <<"clearCustomColumns", a.clearCustomColumns>>,
            <<"project", a.project>>,
            <<"addAccessRoles", a.addAccessRoles>>,
            <<"removeAccessRoles", a.removeAccessRoles>>,
            <<"withInvitations", a.withInvitations>>,
            <<"convertToCustomItemType", a.convertToCustomItemType>>,
            <<"plainTextCustomFields", a.plainTextCustomFields>>,
            <<"fields", a.fields>> >>)
        request_body == DictComp(request_body_0.items)
        url == <<base_url, "/", "folders", "/">> \o Format(a.folderId)
        query_params == Dict(<<>>)
    IN  _put(url, request_body, query_params)

get_tasks(a) ==
    LET url == <<base_url, "/", "tasks">>
        query_params == DictComp(<<
            <<"descendants", a.descendants>>,
            <<"title", a.title>>,
            <<"status", a.status>>,
            <<"importance", a.importance>>,
            <<"startDate", a.startDate>>,
            <<"dueDate", a.dueDate>>,
            <<"scheduledDate", a.scheduledDate>>,
            <<"createdDate", a.createdDate>>,
            <<"updatedDate", a.updatedDate>>,
            <<"completedDate", a.completedDate>>,
            <<"authors", a.authors>>,
            <<"responsibles", a.responsibles>>,
            <<"responsiblePlaceholders", a.responsiblePlaceholders>>,
            <<"permalink", a.permalink>>,
            <<"type", a.type>>,
            <<"limit", a.limit>>,
            <<"sortField", a.sortField>>,
            <<"sortOrder", a.sortOrder>>,
            <<"subTasks", a.subTasks>>,
            <<"pageSize", a.pageSize>>,
            <<"nextPageToken", a.nextPageToken>>,
            <<"metadata", a.metadata>>,
            <<"customField", a.customField>>,
            <<"customFields", a.customFields>>,
            <<"customStatuses", a.customStatuses>>,
            <<"withInvitations", a.withInvitations>>,
            <<"billingTypes", a.billingTypes>>,
            <<"plainTextCustomFields", a.plainTextCustomFields>>,
            <<"customItemTypes", a.customItemTypes>>,
            <<"fields", a.fields>> >>)
    IN  _get(url, query_params)

get_tasks_by_taskid(a) ==
    IF a.taskId = None
    THEN Raise(ValueError(<<"Missing required parameter ", "'", "taskId", "'">>))
    ELSE
    LET url == <<base_url, "/", "tasks", "/">> \o Format(a.taskId)
        query_params == DictComp(<<
            <<"fields", a.fields>> >>)
    IN  _get(url, query_params)

put_tasks_by_taskid(a) ==
    IF a.taskId = None
    THEN Raise(ValueError(<<"Missing required parameter ", "'", "taskId", "'">>))
    ELSE
    LET request_body_0 == Dict(<<
            <<"title", a.title>>,
            <<"description", a.description>>,
            <<"status", a.status>>,
            <<"importance", a.importance>>,
            <<"dates", a.dates>>,
            <<"addParents", a.addParents>>,
            <<"removeParents", a.removeParents>>,
            <<"addShareds", a.addShareds>>,
            <<"removeShareds", a.removeShareds>>,
            <<"addResponsibles", a.addResponsibles>>,
            <<"removeResponsibles", a.removeResponsibles>>,
            <<"addResponsiblePlaceholders", a.addResponsiblePlaceholders>>,
            <<"removeResponsiblePlaceholders", a.removeResponsiblePlaceholders>>,
            <<"addFollowers", a.addFollowers>>,
            <<"follow", a.follow>>,
            <<"priorityBefore", a.priorityBefore>>,
            <<"priorityAfter", a.priorityAfter>>,
            <<"addSuperTasks", a.addSuperTasks>>,
            <<"removeSuperTasks", a.removeSuperTasks>>,
            <<"metadata", a.metadata>>,
            <<"customFields", a.customFields>>,
            <<"customStatus", a.customStatus>>,
            <<"restore", a.restore>>,
            <<"effortAllocation", a.effortAllocation>>,
            <<"billingType", a.billingType>>,
            <<"withInvitations", a.withInvitations>>,
            <<"convertToCustomItemType", a.convertToCustomItemType>>,
            <<"plainTextCustomFields", a.plainTextCustomFields>>,
            <<"fields", a.fields>> >>)
        request_body == DictComp(request_body_0.items)
        url == <<base_url, "/", "tasks", "/">> \o Format(a.taskId)
        query_params == Dict(<<>>)
    IN  _put(url, request_body, query_params)


\* delete_tasks_by_taskid addressing the task under a path of its own
delete_tasks_by_taskid_own_path(a) ==
    IF a.taskId = None
    THEN Raise(ValueError(<<"Missing required parameter ", "'", "taskId", "'">>))
    ELSE
    LET url == <<base_url, "/", "task", "/">> \o Format(a.taskId)
        query_params == Dict(<<>>)
    IN  _delete(url, query_params)

delete_tasks_by_taskid(a) ==
    IF a.taskId = None
    THEN Raise(ValueError(<<"Missing required parameter ", "'", "taskId", "'">>))
    ELSE
    LET url == <<base_url, "/", "tasks", "/">> \o Format(a.taskId)
        query_params == Dict(<<>>)
    IN  _delete(url, query_params)

post_folders_by_folderid_tasks(a) ==
    IF a.folderId = None
    THEN Raise(ValueError(<<"Missing required parameter ", "'", "folderId", "'">>))
    ELSE
    IF a.title = None
    THEN Raise(ValueError(<<"Missing required parameter ", "'", "title", "'">>))
    ELSE
    LET request_body_0 == Dict(<<
            <<"title", a.title>>,
            <<"description", a.description>>,
            <<"status", a.status>>,
            <<"importance", a.importance>>,
            <<"dates", a.dates>>,
            <<"shareds", a.shareds>>,
            <<"parents", a.parents>>,
            <<"responsibles", a.responsibles>>,
            <<"responsiblePlaceholders", a.responsiblePlaceholders>>,
            <<"followers", a.followers>>,
            <<"follow", a.follow>>,
            <<"priorityBefore", a.priorityBefore>>,
            <<"priorityAfter", a.priorityAfter>>,
            <<"superTasks", a.superTasks>>,
            <<"metadata", a.metadata>>,
            <<"customFields", a.customFields>>,
            <<"customStatus", a.customStatus>>,
            <<"effortAllocation", a.effortAllocation>>,
            <<"billingType", a.billingType>>,
            <<"withInvitations", a.withInvitations>>,
            <<"customItemTypeId", a.customItemTypeId>>,
            <<"plainTextCustomFields", a.plainTextCustomFields>>,
            <<"fields", a.fields>> >>)
        request_body == DictComp(request_body_0.items)
        url == <<base_url, "/", "folders", "/">> \o Format(a.folderId) \o <<"/", "tasks">>
        query_params == Dict(<<>>)
    IN  _post(url, request_body, query_params)

\* list_tools with one method left out
list_tools_without_account ==
    << <<"get", "contacts">>,
       <<"get", "contacts_by_contactid">>,
       <<"put", "contacts_by_contactid">>,
       <<"get", "users_by_userid">>,
       <<"put", "users_by_userid">>,
       <<"get", "groups">>,
       <<"post", "groups">>,
       <<"get", "groups_by_groupid">>,
       <<"put", "groups_by_groupid">>,
       <<"delete", "groups_by_groupid">>,
       <<"put", "groups_bulk">>,
       <<"get", "invitations">>,
       <<"post", "invitations">>,
       <<"put", "invitations_by_invitationid">>,
       <<"delete", "invitations_by_invitationid">>,
       <<"put", "a_ccount">>,
       <<"get", "workflows">>,
       <<"post", "workflows">>,
       <<"put", "workflows_by_workflowid">>,
       <<"get", "customfields">>,
       <<"post", "customfields">>,
       <<"get", "customfields_by_customfieldid">>,
       <<"put", "customfields_by_customfieldid">>,
       <<"delete", "customfields_by_customfieldid">>,
       <<"get", "folders">>,
       <<"get", "folders_by_folderid_folders">>,
       <<"post", "folders_by_folderid_folders">>,
       <<"delete", "folders_by_folderid">>,
       <<"put", "folders_by_folderid">>,
       <<"get", "tasks">>,
       <<"get", "tasks_by_taskid">>,
       <<"put", "tasks_by_taskid">>,
       <<"delete", "tasks_by_taskid">>,
       <<"post", "folders_by_folderid_tasks">> >>

list_tools ==
    << <<"get", "contacts">>,
       <<"get", "contacts_by_contactid">>,
       <<"put", "contacts_by_contactid">>,
       <<"get", "users_by_userid">>,
       <<"put", "users_by_userid">>,
       <<"get", "groups">>,
       <<"post", "groups">>,
       <<"get", "groups_by_groupid">>,
       <<"put", "groups_by_groupid">>,
       <<"delete", "groups_by_groupid">>,
       <<"put", "groups_bulk">>,
       <<"get", "invitations">>,
       <<"post", "invitations">>,
       <<"put", "invitations_by_invitationid">>,
       <<"delete", "invitations_by_invitationid">>,
       <<"get", "a_ccount">>,
       <<"put", "a_ccount">>,
       <<"get", "workflows">>,
       <<"post", "workflows">>,
       <<"put", "workflows_by_workflowid">>,
       <<"get", "customfields">>,
       <<"post", "customfields">>,
       <<"get", "customfields_by_customfieldid">>,
       <<"put", "customfields_by_customfieldid">>,
       <<"delete", "customfields_by_customfieldid">>,
       <<"get", "folders">>,
       <<"get", "folders_by_folderid_folders">>,
       <<"post", "folders_by_folderid_folders">>,
       <<"delete", "folders_by_folderid">>,
       <<"put", "folders_by_folderid">>,
       <<"get", "tasks">>,
       <<"get", "tasks_by_taskid">>,
       <<"put", "tasks_by_taskid">>,
       <<"delete", "tasks_by_taskid">>,
       <<"post", "folders_by_folderid_tasks">> >>

Operations ==
    { <<"get", "contacts">>,
      <<"get", "contacts_by_contactid">>,
      <<"put", "contacts_by_contactid">>,
      <<"get", "users_by_userid">>,
      <<"put", "users_by_userid">>,
      <<"get", "groups">>,
      <<"post", "groups">>,
      <<"get", "groups_by_groupid">>,
      <<"put", "groups_by_groupid">>,
      <<"delete", "groups_by_groupid">>,
      <<"put", "groups_bulk">>,
      <<"get", "invitations">>,
      <<"post", "invitations">>,
      <<"put", "invitations_by_invitationid">>,
      <<"delete", "invitations_by_invitationid">>,
      <<"get", "a_ccount">>,
      <<"put", "a_ccount">>,
      <<"get", "workflows">>,
      <<"post", "workflows">>,
      <<"put", "workflows_by_workflowid">>,
      <<"get", "customfields">>,
      <<"post", "customfields">>,
      <<"get", "customfields_by_customfieldid">>,
      <<"put", "customfields_by_customfieldid">>,
      <<"delete", "customfields_by_customfieldid">>,
      <<"get", "folders">>,
      <<"get", "folders_by_folderid_folders">>,
      <<"post", "folders_by_folderid_folders">>,
      <<"delete", "folders_by_folderid">>,
      <<"put", "folders_by_folderid">>,
      <<"get", "tasks">>,
      <<"get", "tasks_by_taskid">>,
      <<"put", "tasks_by_taskid">>,
      <<"delete", "tasks_by_taskid">>,
      <<"post", "folders_by_folderid_tasks">> }

Signature(o) ==
    CASE o = <<"get", "contacts">> ->
           [required |-> <<>>,
            optional |-> <<"deleted", "fields", "metadata">>]
      [] o = <<"get", "contacts_by_contactid">> ->
           [required |-> <<"contactId">>,
            optional |-> <<"fields">>]
      [] o = <<"put", "contacts_by_contactid">> ->
           [required |-> <<"contactId">>,
            optional |-> <<"metadata", "currentBillRate", "currentCostRate", "jobRoleId",
                          "customFields", "fields">>]
      [] o = <<"get", "users_by_userid">> ->
           [required |-> <<"userId">>,
            optional |-> <<>>]
      [] o = <<"put", "users_by_userid">> ->
           [required |-> <<"userId">>,
            optional |-> <<"profile">>]
      [] o = <<"get", "groups">> ->
           [required |-> <<>>,
            optional |-> <<"metadata", "pageSize", "pageToken", "fields">>]
      [] o = <<"post", "groups">> ->
           [required |-> <<"title">>,
            optional |-> <<"members", "parent", "avatar", "metadata">>]
      [] o = <<"get", "groups_by_groupid">> ->
           [required |-> <<"groupId">>,
            optional |-> <<"fields">>]
      [] o = <<"put", "groups_by_groupid">> ->
           [required |-> <<"groupId">>,
            optional |-> <<"title", "addMembers", "removeMembers", "addInvitations",
                          "removeInvitations", "parent", "avatar", "metadata">>]
      [] o = <<"delete", "groups_by_groupid">> ->
           [required |-> <<"groupId">>,
            optional |-> <<>>]
      [] o = <<"put", "groups_bulk">> ->
           [required |-> <<"members">>,
            optional |-> <<>>]
      [] o = <<"get", "invitations">> ->
           [required |-> <<>>,
            optional |-> <<>>]
      [] o = <<"post", "invitations">> ->
           [required |-> <<"email">>,
            optional |-> <<"firstName", "lastName", "role", "external",
                          "subject", "message", "userTypeId">>]
      [] o = <<"put", "invitations_by_invitationid">> ->
           [required |-> <<"invitationId">>,
            optional |-> <<"resend", "role", "external", "userTypeId">>]
      [] o = <<"delete", "invitations_by_invitationid">> ->
           [required |-> <<"invitationId">>,
            optional |-> <<>>]
      [] o = <<"get", "a_ccount">> ->
           [required |-> <<>>,
            optional |-> <<"fields">>]
      [] o = <<"put", "a_ccount">> ->
           [required |-> <<>>,
            optional |-> <<"metadata">>]
      [] o = <<"get", "workflows">> ->
           [required |-> <<>>,
            optional |-> <<>>]
      [] o = <<"post", "workflows">> ->
           [required |-> <<>>,
            optional |-> <<"name", "request_body">>]
      [] o = <<"put", "workflows_by_workflowid">> ->
           [required |-> <<"workflowId">>,
            optional |-> <<"name", "hidden", "request_body">>]
      [] o = <<"get", "customfields">> ->
           [required |-> <<>>,
            optional |-> <<>>]
      [] o = <<"post", "customfields">> ->
           [required |-> <<"title", "type">>,
            optional |-> <<"spaceId", "sharing", "shareds", "settings",
                          "request_body">>]
      [] o = <<"get", "customfields_by_customfieldid">> ->
           [required |-> <<"customFieldId">>,
            optional |-> <<>>]
      [] o = <<"put", "customfields_by_customfieldid">> ->
           [required |-> <<"customFieldId">>,
            optional |-> <<"title", "type", "changeScope", "spaceId",
                          "sharing", "addShareds", "removeShareds", "settings",
                          "addMirrors", "removeMirrors">>]
      [] o = <<"delete", "customfields_by_customfieldid">> ->
           [required |-> <<"customFieldId">>,
            optional |-> <<>>]
      [] o = <<"get", "folders">> ->
           [required |-> <<>>,
            optional |-> <<"permalink", "descendants", "metadata", "customFields",
                          "updatedDate", "withInvitations", "project", "deleted",
                          "contractTypes", "plainTextCustomFields", "customItemTypes", "pageSize",
                          "nextPageToken", "fields">>]
      [] o = <<"get", "folders_by_folderid_folders">> ->
           [required |-> <<"folderId">>,
            optional |-> <<"permalink", "descendants", "metadata", "customFields",
                          "updatedDate", "withInvitations", "project", "contractTypes",
                          "plainTextCustomFields", "customItemTypes", "pageSize", "nextPageToken",
                          "fields">>]
      [] o = <<"post", "folders_by_folderid_folders">> ->
           [required |-> <<"folderId", "title">>,
            optional |-> <<"description", "shareds", "metadata", "customFields",
                          "customColumns", "project", "userAccessRoles", "withInvitations",
                          "customItemTypeId", "plainTextCustomFields", "fields">>]
      [] o = <<"delete", "folders_by_folderid">> ->
           [required |-> <<"folderId">>,
            optional |-> <<>>]
      [] o = <<"put", "folders_by_folderid">> ->
           [required |-> <<"folderId">>,
            optional |-> <<"title", "description", "addParents", "removeParents",
                          "addShareds", "removeShareds", "metadata", "restore",
                          "customFields", "customColumns", "clearCustomColumns", "project",
                          "addAccessRoles", "removeAccessRoles", "withInvitations", "convertToCustomItemType",
                          "plainTextCustomFields", "fields">>]
      [] o = <<"get", "tasks">> ->
           [required |-> <<>>,
            optional |-> <<"descendants", "title", "status", "importance",
                          "startDate", "dueDate", "scheduledDate", "createdDate",
                          "updatedDate", "completedDate", "authors", "responsibles",
                          "responsiblePlaceholders", "permalink", "type", "limit",
                          "sortField", "sortOrder", "subTasks", "pageSize",
                          "nextPageToken", "metadata", "customField", "customFields",
                          "customStatuses", "withInvitations", "billingTypes", "plainTextCustomFields",
                          "customItemTypes", "fields">>]
      [] o = <<"get", "tasks_by_taskid">> ->
           [required |-> <<"taskId">>,
            optional |-> <<"fields">>]
      [] o = <<"put", "tasks_by_taskid">> ->
           [required |-> <<"taskId">>,
            optional |-> <<"title", "description", "status", "importance",
                          "dates", "addParents", "removeParents", "addShareds",
                          "removeShareds", "addResponsibles", "removeResponsibles", "addResponsiblePlaceholders",
                          "removeResponsiblePlaceholders", "addFollowers", "follow", "priorityBefore",
                          "priorityAfter", "addSuperTasks", "removeSuperTasks", "metadata",
                          "customFields", "customStatus", "restore", "effortAllocation",
                          "billingType", "withInvitations", "convertToCustomItemType", "plainTextCustomFields",
                          "fields">>]
      [] o = <<"delete", "tasks_by_taskid">> ->
           [required |-> <<"taskId">>,
            optional |-> <<>>]
      [] o = <<"post", "folders_by_folderid_tasks">> ->
           [required |-> <<"folderId", "title">>,
            optional |-> <<"description", "status", "importance", "dates",
                          "shareds", "parents", "responsibles", "responsiblePlaceholders",
                          "followers", "follow", "priorityBefore", "priorityAfter",
                          "superTasks", "metadata", "customFields", "customStatus",
                          "effortAllocation", "billingType", "withInvitations", "customItemTypeId",
                          "plainTextCustomFields", "fields">>]

Dispatch(o, a) ==
    CASE o = <<"get", "contacts">> -> get_contacts(a)
      [] o = <<"get", "contacts_by_contactid">> -> get_contacts_by_contactid(a)
      [] o = <<"put", "contacts_by_contactid">> -> put_contacts_by_contactid(a)
      [] o = <<"get", "users_by_userid">> -> get_users_by_userid(a)
      [] o = <<"put", "users_by_userid">> -> put_users_by_userid(a)
      [] o = <<"get", "groups">> -> get_groups(a)
      [] o = <<"post", "groups">> -> post_groups(a)
      [] o = <<"get", "groups_by_groupid">> -> get_groups_by_groupid(a)
      [] o = <<"put", "groups_by_groupid">> -> put_groups_by_groupid(a)
      [] o = <<"delete", "groups_by_groupid">> -> delete_groups_by_groupid(a)
      [] o = <<"put", "groups_bulk">> -> put_groups_bulk(a)
      [] o = <<"get", "invitations">> -> get_invitations(a)
      [] o = <<"post", "invitations">> -> post_invitations(a)
      [] o = <<"put", "invitations_by_invitationid">> -> put_invitations_by_invitationid(a)
      [] o = <<"delete", "invitations_by_invitationid">> -> delete_invitations_by_invitationid(a)
      [] o = <<"get", "a_ccount">> -> get_a_ccount(a)
      [] o = <<"put", "a_ccount">> -> put_a_ccount(a)
      [] o = <<"get", "workflows">> -> get_workflows(a)
      [] o = <<"post", "workflows">> -> post_workflows(a)
      [] o = <<"put", "workflows_by_workflowid">> -> put_workflows_by_workflowid(a)
      [] o = <<"get", "customfields">> -> get_customfields(a)
      [] o = <<"post", "customfields">> -> post_customfields(a)
      [] o = <<"get", "customfields_by_customfieldid">> -> get_customfields_by_customfieldid(a)
      [] o = <<"put", "customfields_by_customfieldid">> -> put_customfields_by_customfieldid(a)
      [] o = <<"delete", "customfields_by_customfieldid">> -> delete_customfields_by_customfieldid(a)
      [] o = <<"get", "folders">> -> get_folders(a)
      [] o = <<"get", "folders_by_folderid_folders">> -> get_folders_by_folderid_folders(a)
      [] o = <<"post", "folders_by_folderid_folders">> -> post_folders_by_folderid_folders(a)
      [] o = <<"delete", "folders_by_folderid">> -> delete_folders_by_folderid(a)
      [] o = <<"put", "folders_by_folderid">> -> put_folders_by_folderid(a)
      [] o = <<"get", "tasks">> -> get_tasks(a)
      [] o = <<"get", "tasks_by_taskid">> -> get_tasks_by_taskid(a)
      [] o = <<"put", "tasks_by_taskid">> -> put_tasks_by_taskid(a)
      [] o = <<"delete", "tasks_by_taskid">> -> delete_tasks_by_taskid(a)
      [] o = <<"post", "folders_by_folderid_tasks">> -> post_folders_by_folderid_tasks(a)

\* ------------------------------------------------------------------ the remote's responses

\* body texts, as token sequences
\* a page of a listing that names the page after it
BodyPage ==
    <<"{", "kind", ":", "tasks", ",", "nextPageToken", ":", "T2", ",", "data", ":", "null", "}">>

BodyError == <<"{", "error", ":", "not_found", "}">>

BodyEmpty == <<>>

BodyHtml == <<"<html>">>

Responses ==
    { [status_code |-> 200, text |-> BodyPage],
      [status_code |-> 204, text |-> BodyEmpty],
      [status_code |-> 404, text |-> BodyError],
      [status_code |-> 500, text |-> BodyHtml] }

\* httpx.Response.is_success
is_success(r) == r.status_code >= 200 /\ r.status_code <= 299

Punctuation == {"{", "}", ":", ","}

\* a flat JSON object: { key : value , key : value ... }
IsJson(t) ==
    /\ Len(t) >= 2
    /\ t[1] = "{"
    /\ t[Len(t)] = "}"
    /\ \/ Len(t) = 2
       \/ /\ (Len(t) - 1) % 4 = 0
          /\ \A i \in 2..(Len(t) - 1) :
                CASE i % 4 = 2 -> t[i] \notin Punctuation
                  [] i % 4 = 3 -> t[i] = ":"
                  [] i % 4 = 0 -> t[i] \notin Punctuation
                  [] i % 4 = 1 -> t[i] = ","

JsonScalar(tok) ==
    CASE tok = "null" -> None
      [] tok = "true" -> Bool(TRUE)
      [] tok = "false" -> Bool(FALSE)
      [] OTHER -> Str(tok)

\* response.json(): the decoded body, or the decoder's exception
json(r) ==
    IF IsJson(r.text)
    THEN [kind |-> "return",
          value |-> Dict([i \in 1..((Len(r.text) - 1) \div 4) |->
                            <<r.text[4 * i - 2], JsonScalar(r.text[4 * i])>>])]
    ELSE [kind |-> "raise", exc |-> JSONDecodeError]

\* response.raise_for_status(): where control goes next
raise_for_status(r) ==
    IF is_success(r) THEN [kind |-> "pass"] ELSE [kind |-> "raise", exc |-> HTTPStatusError(r)]

\* ------------------------------------------------------------------ arguments

ReqValues == {None, Str(""), Str("a")}

OptValues == {Bool(FALSE), Dict(<< <<"k", None>> >>)}

RECURSIVE SubsetsUpTo(_, _)
SubsetsUpTo(P, k) ==
    IF k = 0 THEN {{}}
    ELSE LET smaller == SubsetsUpTo(P, k - 1)
         IN  smaller \cup {s \cup {p} : s \in smaller, p \in P}

Required(o) == Range(Signature(o).required)

Optional(o) == Range(Signature(o).optional)

MkArgs(o, r, S, g) ==
    [p \in Required(o) \cup Optional(o) |->
        IF p \in Required(o) THEN r[p] ELSE IF p \in S THEN g[p] ELSE None]

\* the argument tuples of a call of o: its required arguments with few of its
\* optional ones, with all of them, and alone; the optional arguments given
\* together have one value
ArgSets(o) ==
    { MkArgs(o, r, S, [p \in S |-> v])
        : r \in [Required(o) -> ReqValues], S \in SubsetsUpTo(Optional(o), MaxPresent),
          v \in OptValues }
    \cup { MkArgs(o, r, Optional(o), [p \in Optional(o) |-> v])
            : r \in [Required(o) -> ReqValues], v \in OptValues \cup FalsyValues }
    \cup { MkArgs(o, r, {}, <<>>)
            : r \in [Required(o) -> ReqValues \cup FalsyValues] }

\* ------------------------------------------------------------------ actions

Init ==
    /\ base_url = BaseUrl
    /\ pc = "idle"
    /\ op = NoOp
    /\ args = Unset
    /\ request = Unset
    /\ response = Unset
    /\ outcome = Unset
    /\ calls = 0
    /\ nPassed = 0
    /\ nHttp = 0
    /\ prev = Unset
    /\ boot = Unset

\* the methods sharing one query_params mapping that keeps what earlier calls put in it
InvokeOf_shared(Ops) ==
    /\ pc = "idle"
    /\ nHttp < MaxCalls
    /\ \E o \in Ops : \E a \in ArgSets(o) :
        LET plan == Dispatch(o, a)
            kept == IF prev # Unset /\ prev.request # Unset
                    THEN prev.request.params.items
                    ELSE <<>>
        IN
        /\ op' = o
        /\ args' = a
        /\ calls' = 0
        /\ IF plan.kind = "raise"
           THEN /\ pc' = "done"
                /\ outcome' = plan
                /\ request' = Unset
                /\ nPassed' = nPassed
           ELSE /\ pc' = "call"
                /\ outcome' = Unset
                /\ request' = [plan.request EXCEPT
                                 !.params = Dict(kept \o plan.request.params.items)]
                /\ nPassed' = nPassed + 1
    /\ UNCHANGED <<boot, prev, base_url, response, nHttp>>

\* a method among Ops is entered: validation, then the parameters and the URL are built
InvokeOf(Ops) ==
    /\ pc = "idle"
    /\ nHttp < MaxCalls
    /\ \E o \in Ops : \E a \in ArgSets(o) :
        LET plan == Dispatch(o, a) IN
        /\ op' = o
        /\ args' = a
        /\ calls' = 0
        /\ IF plan.kind = "raise"
           THEN /\ pc' = "done"
                /\ outcome' = plan
                /\ request' = Unset
                /\ nPassed' = nPassed
           ELSE /\ pc' = "call"
                /\ outcome' = Unset
                /\ request' = plan.request
                /\ nPassed' = nPassed + 1
    /\ UNCHANGED <<boot, prev, base_url, response, nHttp>>

Invoke == InvokeOf(Operations)

\* the call answered from the response of an earlier identical invocation
Transport_cached ==
    /\ pc = "call"
    /\ IF prev # Unset /\ prev.op = op /\ prev.args = args /\ prev.response # Unset
       THEN /\ response' = prev.response
            /\ pc' = "received"
            /\ UNCHANGED <<calls, nHttp>>
       ELSE /\ calls' = calls + 1
            /\ nHttp' = nHttp + 1
            /\ pc' = "sent"
            /\ UNCHANGED response
    /\ UNCHANGED <<boot, prev, base_url, op, args, request, outcome, nPassed>>

\* the call line duplicated
Transport_twice ==
    /\ pc = "call"
    /\ calls' = calls + 2
    /\ nHttp' = nHttp + 2
    /\ pc' = "sent"
    /\ UNCHANGED <<boot, prev, base_url, op, args, request, response, outcome, nPassed>>

\* response = self._<verb>(url, ...): the call goes out
Transport ==
    /\ pc = "call"
    /\ calls' = calls + 1
    /\ nHttp' = nHttp + 1
    /\ pc' = "sent"
    /\ UNCHANGED <<boot, prev, base_url, op, args, request, response, outcome, nPassed>>

\* the remote answers, with one of Rs
RespondOf(Rs) ==
    /\ pc = "sent"
    /\ \E r \in Rs : response' = r
    /\ pc' = "received"
    /\ UNCHANGED <<boot, prev, base_url, op, args, request, outcome, calls, nPassed, nHttp>>

Respond == RespondOf(Responses)

\* the handler decoding the body before it checks the status
StatusCheck_decode_first ==
    /\ pc = "received"
    /\ LET r == json(response)
           chk == raise_for_status(response)
       IN  IF r.kind = "raise"
           THEN pc' = "done" /\ outcome' = r
           ELSE IF chk.kind = "raise"
           THEN pc' = "done" /\ outcome' = chk
           ELSE pc' = "checked" /\ outcome' = outcome
    /\ UNCHANGED <<boot, prev, base_url, op, args, request, response, calls, nPassed, nHttp>>

\* the handler calling again after a non-success response
StatusCheck_retry ==
    /\ pc = "received"
    /\ LET chk == raise_for_status(response) IN
       IF chk.kind = "raise"
       THEN pc' = "call" /\ outcome' = outcome
       ELSE pc' = "checked" /\ outcome' = outcome
    /\ UNCHANGED <<boot, prev, base_url, op, args, request, response, calls, nPassed, nHttp>>

\* the handler without its response.raise_for_status() line
StatusCheck_skipped ==
    /\ pc = "received"
    /\ pc' = "checked"
    /\ UNCHANGED <<boot, prev, base_url, op, args, request, response, outcome, calls, nPassed, nHttp>>

\* response.raise_for_status()
StatusCheck ==
    /\ pc = "received"
    /\ LET chk == raise_for_status(response) IN
       IF chk.kind = "raise"
       THEN pc' = "done" /\ outcome' = chk
       ELSE pc' = "checked" /\ outcome' = outcome
    /\ UNCHANGED <<boot, prev, base_url, op, args, request, response, calls, nPassed, nHttp>>

\* the handler fetching the next page when the decoded body names one
Decode_follow_pages ==
    /\ pc = "checked"
    /\ LET r == json(response)
           more == r.kind = "return"
                     /\ \E i \in 1..Len(r.value.items) :
                           r.value.items[i][1] = "nextPageToken" /\ r.value.items[i][2] # None
       IN  IF more
           THEN /\ pc' = "call"
                /\ outcome' = outcome
           ELSE /\ pc' = "done"
                /\ outcome' = r
    /\ UNCHANGED <<boot, prev, base_url, op, args, request, response, calls, nPassed, nHttp>>

\* the handler dropping the None entries of the decoded body too
Decode_stripped ==
    /\ pc = "checked"
    /\ LET r == json(response) IN
       outcome' = IF r.kind = "return"
                  THEN [kind |-> "return", value |-> DictComp(r.value.items)]
                  ELSE r
    /\ pc' = "done"
    /\ UNCHANGED <<boot, prev, base_url, op, args, request, response, calls, nPassed, nHttp>>

\* return response.json()
Decode ==
    /\ pc = "checked"
    /\ outcome' = json(response)
    /\ pc' = "done"
    /\ UNCHANGED <<boot, prev, base_url, op, args, request, response, calls, nPassed, nHttp>>

\* the caller has the outcome; the invocation's locals are gone
Finish ==
    /\ pc = "done"
    /\ pc' = "idle"
    /\ op' = NoOp
    /\ args' = Unset
    /\ request' = Unset
    /\ response' = Unset
    /\ outcome' = Unset
    /\ calls' = 0
    /\ UNCHANGED <<boot, prev, base_url, nPassed, nHttp>>

Next == Invoke \/ Transport \/ Respond \/ StatusCheck \/ Decode \/ Finish

Spec == Init /\ [][Next]_vars

\* list_tools(): the host asks for the tools
ListTools ==
    /\ pc = "idle"
    /\ op' = <<"list", "tools">>
    /\ args' = Unset
    /\ request' = Unset
    /\ calls' = 0
    /\ outcome' = [kind |-> "return", value |-> List(list_tools)]
    /\ pc' = "done"
    /\ UNCHANGED <<boot, prev, base_url, response, nPassed, nHttp>>

NextTools == Next \/ ListTools

\* the facade with its host discovering the tools
SpecTools == Init /\ [][NextTools]_vars

\* the operations and the responses of the behaviours whose history is kept
HistOps ==
    { <<"get", "users_by_userid">>, <<"get", "workflows">>, <<"get", "tasks_by_taskid">>,
      <<"put", "users_by_userid">> }

BodyObject == <<"{", "}">>

HistResponses ==
    { [status_code |-> 200, text |-> BodyPage],
      [status_code |-> 200, text |-> BodyObject],
      [status_code |-> 404, text |-> BodyError] }

InvokeSome == InvokeOf(HistOps)

RespondSome == RespondOf(HistResponses)

\* Finish, with the history: the invocation that ends is remembered, or an
\* earlier one stays remembered (and is then no longer the last one)
FinishRecord ==
    /\ pc = "done"
    /\ pc' = "idle"
    /\ op' = NoOp
    /\ args' = Unset
    /\ request' = Unset
    /\ response' = Unset
    /\ outcome' = Unset
    /\ calls' = 0
    /\ \/ prev' = [op |-> op, args |-> args, request |-> request, response |-> response,
                   outcome |-> outcome, calls |-> calls, last |-> TRUE]
       \/ prev # Unset /\ prev' = [prev EXCEPT !.last = FALSE]
    /\ UNCHANGED <<boot, base_url, nPassed, nHttp>>

NextHist == InvokeSome \/ Transport \/ RespondSome \/ StatusCheck \/ Decode \/ FinishRecord

\* the facade called repeatedly, with the history of an earlier invocation
SpecHist == Init /\ [][NextHist]_vars

\* ------------------------------------------------------------------ server.py

\* the names under which the module can be loaded: run as the program, or imported
ModuleNames == {"__main__", "universal_mcp_wrike.server"}

\* nothing of the module is loaded, and no facade exists
InitBoot ==
    /\ base_url = Unset
    /\ pc = "idle"
    /\ op = NoOp
    /\ args = Unset
    /\ request = Unset
    /\ response = Unset
    /\ outcome = Unset
    /\ calls = 0
    /\ nPassed = 0
    /\ nHttp = 0
    /\ prev = Unset
    /\ boot = [at |-> "unloaded", name |-> Unset, env_store |-> Unset,
               integration_instance |-> Unset, app_instance |-> Unset, mcp |-> Unset,
               apps |-> 0, servers |-> 0, runs |-> 0]

\* the interpreter starts loading the module, under one of its names
LoadModule ==
    /\ boot.at = "unloaded"
    /\ \E n \in ModuleNames : boot' = [boot EXCEPT !.at = "env_store", !.name = n]
    /\ UNCHANGED <<base_url, pc, op, args, request, response, outcome, calls, nPassed, nHttp, prev>>

\* env_store = EnvironmentStore()
MakeStore ==
    /\ boot.at = "env_store"
    /\ boot' = [boot EXCEPT !.at = "integration_instance",
                            !.env_store = [ty |-> "EnvironmentStore"]]
    /\ UNCHANGED <<base_url, pc, op, args, request, response, outcome, calls, nPassed, nHttp, prev>>

\* integration_instance = AgentRIntegration(name="wrike", store=env_store)
MakeIntegration ==
    /\ boot.at = "integration_instance"
    /\ boot' = [boot EXCEPT !.at = "app_instance",
                            !.integration_instance =
                                [ty |-> "AgentRIntegration", name |-> "wrike",
                                 store |-> boot.env_store]]
    /\ UNCHANGED <<base_url, pc, op, args, request, response, outcome, calls, nPassed, nHttp, prev>>

\* app_instance = WrikeApp(integration=integration_instance), that is WrikeApp.__init__
MakeApp ==
    /\ boot.at = "app_instance"
    /\ boot' = [boot EXCEPT !.at = "mcp",
                            !.app_instance =
                                [ty |-> "WrikeApp", name |-> "wrike",
                                 integration |-> boot.integration_instance],
                            !.apps = boot.apps + 1]
    /\ base_url' = BaseUrl
    /\ UNCHANGED <<pc, op, args, request, response, outcome, calls, nPassed, nHttp, prev>>

\* mcp = SingleMCPServer(app_instance=app_instance)
MakeServer ==
    /\ boot.at = "mcp"
    /\ boot' = [boot EXCEPT !.at = "main_guard",
                            !.mcp = [ty |-> "SingleMCPServer",
                                     app_instance |-> boot.app_instance],
                            !.servers = boot.servers + 1]
    /\ UNCHANGED <<base_url, pc, op, args, request, response, outcome, calls, nPassed, nHttp, prev>>

\* the module starting its server whatever the name it was loaded under
MainGuard_unguarded ==
    /\ boot.at = "main_guard"
    /\ boot' = [boot EXCEPT !.at = "running", !.runs = boot.runs + 1]
    /\ UNCHANGED <<base_url, pc, op, args, request, response, outcome, calls, nPassed, nHttp, prev>>

\* if __name__ == "__main__": mcp.run()
MainGuard ==
    /\ boot.at = "main_guard"
    /\ IF boot.name = "__main__"
       THEN boot' = [boot EXCEPT !.at = "running", !.runs = boot.runs + 1]
       ELSE boot' = [boot EXCEPT !.at = "loaded"]
    /\ UNCHANGED <<base_url, pc, op, args, request, response, outcome, calls, nPassed, nHttp, prev>>

\* the module is loaded: its server dispatches tools, or its importer uses the objects
Loaded == boot.at \in {"loaded", "running"}

\* a method of app_instance is entered, which takes the module to be loaded
InvokeLoaded == Loaded /\ InvokeOf(HistOps)

NextBoot ==
    \/ LoadModule \/ MakeStore \/ MakeIntegration \/ MakeApp \/ MakeServer \/ MainGuard
    \/ InvokeLoaded \/ Transport \/ RespondSome \/ StatusCheck \/ Decode \/ Finish

\* the bootstrap, then the facade it built in use
SpecBoot == InitBoot /\ [][NextBoot]_vars

\* ------------------------------------------------------------------ properties

\* some required argument of the current invocation is None
MissingRequired == op # NoOp /\ \E p \in Required(op) : args[p] = None

NonSuccess == response # Unset /\ ~is_success(response)

\* json.dumps of a decoded flat object, token by token
ScalarToken(v) ==
    CASE v.ty = "NoneType" -> "null"
      [] v.ty = "bool" -> IF v.b THEN "true" ELSE "false"
      [] v.ty = "str" -> v.s

Dumps(d) ==
    IF Len(d.items) = 0 THEN <<"{", "}">>
    ELSE [i \in 1..(4 * Len(d.items) + 1) |->
            IF i = 1 THEN "{"
            ELSE IF i = 4 * Len(d.items) + 1 THEN "}"
            ELSE CASE i % 4 = 2 -> d.items[(i + 2) \div 4][1]
                   [] i % 4 = 3 -> ":"
                   [] i % 4 = 0 -> ScalarToken(d.items[i \div 4][2])
                   [] i % 4 = 1 -> ","]

\* C1: whenever a required argument of the invoked operation is None, whatever
\* the other arguments are, the invocation ends with a ValueError and has
\* issued no HTTP call (no request was built, none was sent).
C1_MissingRequiredFailsBeforeCall ==
    MissingRequired =>
        /\ pc = "done"
        /\ outcome.kind = "raise"
        /\ outcome.exc.ty = "ValueError"
        /\ calls = 0
        /\ request = Unset
        /\ response = Unset

\* C1 witness: a two-required operation called with its identifier and an optional
\* argument given but its title absent has raised.
C1_Witness ==
    /\ pc = "done"
    /\ op = <<"post", "folders_by_folderid_tasks">>
    /\ args.folderId # None
    /\ args.title = None
    /\ args.fields # None
    /\ outcome.kind = "raise"

\* C2: an optional parameter whose argument is None is no key of the query
\* parameters and no key of the body of the request the invocation issues.
C2_AbsentOptionalNeverSent ==
    request # Unset =>
        \A p \in Optional(op) :
            args[p] = None =>
                /\ p \notin Keys(request.params.items)
                /\ request.data.ty = "dict" => p \notin Keys(request.data.items)

\* C2 witness: an update went out with one optional field present and the others absent.
C2_Witness ==
    /\ pc = "sent"
    /\ op = <<"put", "tasks_by_taskid">>
    /\ args.follow # None
    /\ args.title = None
    /\ Keys(request.data.items) = {"follow"}

\* C3: after a non-success response the invocation neither decodes nor returns:
\* it ends with an exception and no value reaches the caller.
C3_NonSuccessRaises ==
    NonSuccess =>
        /\ pc \in {"received", "done"}
        /\ pc = "done" =>
            /\ outcome.kind = "raise"
            /\ "value" \notin DOMAIN outcome

\* C3 witness: a 404 whose body is well-formed JSON ended as an exception.
C3_Witness ==
    /\ pc = "done"
    /\ response # Unset
    /\ response.status_code = 404
    /\ IsJson(response.text)
    /\ outcome.kind = "raise"

C5_OneCallPerValidInvocation ==
    /\ calls <= 1
    /\ (pc = "done" /\ ~MissingRequired) => calls = 1
    /\ pc \in {"idle", "done"} => nHttp = nPassed

\* C5 witness: the second valid invocation ended on a non-success response.
C5_Witness ==
    /\ pc = "done"
    /\ nPassed = 2
    /\ calls = 1
    /\ NonSuccess

\* C6: every finished invocation ended in one of three ways: a returned decoded
\* body, a ValueError raised because a required argument is absent, or the
\* status check's error raised because the response was a non-success.
C6_OnlyThreeOutcomes ==
    pc = "done" =>
        \/ outcome.kind = "return"
        \/ outcome.kind = "raise" /\ outcome.exc.ty = "ValueError" /\ MissingRequired
        \/ outcome.kind = "raise" /\ outcome.exc.ty = "HTTPStatusError" /\ NonSuccess

\* C7: a non-success response is followed by no further HTTP call of the
\* invocation, and the caller gets the status check's own error (carrying that
\* response's status); a validation failure reaches the caller as the
\* operation's own ValueError naming an absent required argument.
C7_NoRetryNoTranslation ==
    /\ NonSuccess =>
        /\ calls = 1
        /\ pc = "done" =>
            /\ outcome.kind = "raise"
            /\ outcome.exc.ty = "HTTPStatusError"
            /\ outcome.exc.status_code = response.status_code
    /\ (pc = "done" /\ MissingRequired) =>
        /\ outcome.kind = "raise"
        /\ outcome.exc.ty = "ValueError"
        /\ outcome.exc.msg[3] \in {p \in Required(op) : args[p] = None}
        /\ calls = 0

\* C7 witness: a 500 with an undecodable body surfaced as the status check's error.
C7_Witness ==
    /\ pc = "done"
    /\ response # Unset
    /\ response.status_code = 500
    /\ calls = 1
    /\ outcome.exc.ty = "HTTPStatusError"

\* the arguments that leave the identifiers of the path symbolic
TemplateArgs(o) ==
    [p \in Required(o) \cup Optional(o) |-> IF p \in Required(o) THEN Str("{}") ELSE None]

\* <<verb, URL path template>> of an operation
Endpoint(o) ==
    LET r == Dispatch(o, TemplateArgs(o)).request IN <<r.verb, r.url>>

\* C8: there are 35 operations; the call an operation has issued is an instance
\* of its (verb, URL template), and no other operation has the same pair.
C8_EndpointsInjective ==
    pc = "sent" =>
        LET mine == Endpoint(op) IN
        /\ Cardinality(Operations) = 35
        /\ request.verb = mine[1]
        /\ Len(request.url) = Len(mine[2])
        /\ \A i \in 1..Len(request.url) :
              mine[2][i] # "{}" => request.url[i] = mine[2][i]
        /\ \A o2 \in Operations : Endpoint(o2) = mine => o2 = op

\* C8 witness: a call went out to a URL template that another operation shares
\* under a different verb.
C8_Witness ==
    /\ pc = "sent"
    /\ op = <<"put", "folders_by_folderid">>
    /\ \E o2 \in Operations \ {op} : Endpoint(o2)[2] = Endpoint(op)[2]

\* C9: base_url is "https://www.wrike.com/api/v4" in every state, and the URL
\* of every request starts with it, followed by "/".
C9_BaseUrlFixed ==
    /\ base_url = "https://www.wrike.com/api/v4"
    /\ request # Unset =>
        /\ Len(request.url) >= 3
        /\ request.url[1] = "https://www.wrike.com/api/v4"
        /\ request.url[2] = "/"

\* C9 witness: after one invocation failed on a non-success response, the next
\* one issues its call under the same base URL.
C9_Witness ==
    /\ pc = "sent"
    /\ nHttp = 2
    /\ Len(request.url) = 7
    /\ request.url[1] = base_url

VerbOfPrefix(p) ==
    CASE p = "get" -> "GET"
      [] p = "post" -> "POST"
      [] p = "put" -> "PUT"
      [] p = "delete" -> "DELETE"

\* C10: the verb of every request is the one the operation's name starts with
\* (get_ GET, post_ POST, put_ PUT, delete_ DELETE), whatever the arguments.
C10_VerbIsPrefix ==
    request # Unset =>
        /\ op[1] \in {"get", "post", "put", "delete"}
        /\ request.verb = VerbOfPrefix(op[1])

\* C10 witness: a delete operation has issued its call, a DELETE.
C10_Witness ==
    /\ pc = "sent"
    /\ op[1] = "delete"
    /\ request.verb = "DELETE"

\* the identifiers that address a resource in the URL path
PathIdentifiers ==
    {"contactId", "userId", "groupId", "invitationId", "workflowId", "customFieldId",
     "folderId", "taskId"}

\* the <<key, value>> entries the request carries in its query parameters and,
\* when its body is a mapping, in its body
SentEntries ==
    Range(request.params.items)
        \cup (IF request.data.ty = "dict" THEN Range(request.data.items) ELSE {})

\* how many entries of the request have the key k
KeyCount(k) ==
    Cardinality({i \in 1..Len(request.params.items) : request.params.items[i][1] = k})
        + (IF request.data.ty = "dict"
           THEN Cardinality({i \in 1..Len(request.data.items) : request.data.items[i][1] = k})
           ELSE 0)

\* C12: every argument that is not None is in the request sent, unchanged: a named
\* field as exactly one entry whose key is the parameter's name and whose value
\* is the caller's value (a mapping with a None entry included), a path
\* identifier as its text in the identifier's place of the URL, and
\* request_body as the payload itself.
C12_PresentSentUnchanged ==
    pc = "sent" =>
        LET template == Endpoint(op)[2] IN
        \A p \in DOMAIN args :
            args[p] # None =>
                IF p \in PathIdentifiers
                THEN \E i \in 1..Len(request.url) :
                        template[i] = "{}" /\ request.url[i] = Format(args[p])[1]
                ELSE IF p = "request_body"
                THEN request.data = args[p]
                ELSE KeyCount(p) = 1 /\ <<p, args[p]>> \in SentEntries

\* C12 witness: an update went out whose metadata is a mapping with a None entry.
C12_Witness ==
    /\ pc = "sent"
    /\ op = <<"put", "groups_by_groupid">>
    /\ args.metadata = Dict(<< <<"k", None>> >>)
    /\ <<"metadata", Dict(<< <<"k", None>> >>)>> \in Range(request.data.items)

\* the operations that list a collection page by page
ListOps ==
    { <<"get", "groups">>, <<"get", "folders">>, <<"get", "folders_by_folderid_folders">>,
      <<"get", "tasks">> }

PageTokens == {"pageToken", "nextPageToken"}

\* C14: a list operation issues one HTTP call and no more, also when the
\* response names a next page, and its request carries a page token only if the
\* caller gave one, with the caller's value.
C14_NoPaginationTraversal ==
    op \in ListOps =>
        /\ calls <= 1
        /\ (pc = "done" /\ ~MissingRequired) => calls = 1
        /\ request # Unset =>
            \A t \in PageTokens :
                t \in Keys(request.params.items) =>
                    /\ t \in DOMAIN args
                    /\ args[t] # None
                    /\ <<t, args[t]>> \in Range(request.params.items)

\* C14 witness: a listing called without a page token returned a page that
\* names the next one, after one call.
C14_Witness ==
    /\ pc = "done"
    /\ op = <<"get", "tasks">>
    /\ args.nextPageToken = None
    /\ outcome.kind = "return"
    /\ <<"nextPageToken", Str("T2")>> \in Range(outcome.value.items)
    /\ calls = 1

\* C16: post_workflows and put_workflows_by_workflowid send name and hidden as
\* query parameters exactly when given, and pass the caller's request_body on
\* as the payload as it is, None and None entries included.
C16_WorkflowBodyForwarded ==
    (request # Unset /\ op \in {<<"post", "workflows">>, <<"put", "workflows_by_workflowid">>}) =>
        LET given == {p \in {"name", "hidden"} \cap DOMAIN args : args[p] # None} IN
        /\ request.data = args.request_body
        /\ Keys(request.params.items) = given
        /\ Len(request.params.items) = Cardinality(given)
        /\ \A p \in given : <<p, args[p]>> \in Range(request.params.items)

\* C16 witness: a workflow was posted without a name, with a body that has a None entry.
C16_Witness ==
    /\ pc = "sent"
    /\ op = <<"post", "workflows">>
    /\ args.name = None
    /\ args.request_body = Dict(<< <<"k", None>> >>)
    /\ request.data = Dict(<< <<"k", None>> >>)
    /\ request.params.items = <<>>

\* C18: an optional named field whose value is false in a condition but is not
\* None (False, 0, "", [], {}) is sent, under its name and with that value.
C18_FalsyKept ==
    request # Unset =>
        \A p \in Optional(op) \ {"request_body"} :
            args[p] \in FalsyValues => <<p, args[p]>> \in SentEntries

\* C18 witness: an update went out with follow=False.
C18_Witness ==
    /\ pc = "sent"
    /\ op = <<"put", "tasks_by_taskid">>
    /\ args.follow = Bool(FALSE)
    /\ args.restore = None
    /\ <<"follow", Bool(FALSE)>> \in Range(request.data.items)

\* C19: an invocation whose required arguments are all different from None
\* (empty string, 0 and False included) passes validation and issues one HTTP
\* call, whose URL has the text of the identifier in the identifier's place.
C19_OnlyNoneRejected ==
    (op \in Operations /\ \A p \in Required(op) : args[p] # None) =>
        /\ request # Unset
        /\ pc = "done" => (calls = 1 /\ response # Unset)
        /\ pc = "sent" =>
              LET template == Endpoint(op)[2] IN
              \A i \in 1..Len(request.url) :
                  template[i] = "{}" =>
                      \E p \in Required(op) \cap PathIdentifiers :
                          request.url[i] = Format(args[p])[1]

\* C19 witness: a delete with the empty string as identifier went out to a
\* path that ends in "/".
C19_Witness ==
    /\ pc = "sent"
    /\ op = <<"delete", "groups_by_groupid">>
    /\ args.groupId = Str("")
    /\ request.url[Len(request.url)] = ""
    /\ request.url[Len(request.url) - 1] = "/"
    /\ calls = 1

\* the first required parameter, in the order of the signature, whose argument is None
FirstAbsent ==
    LET req == Signature(op).required
        i == CHOOSE i \in 1..Len(req) :
                /\ args[req[i]] = None
                /\ \A j \in 1..(i - 1) : args[req[j]] # None
    IN  req[i]

\* C20: a validation failure carries the message "Missing required parameter
\* '<name>'" naming the first absent required parameter: title before type in
\* post_customfields, folderId before title in post_folders_by_folderid_folders
\* and post_folders_by_folderid_tasks.
C20_FirstAbsentNamed ==
    (pc = "done" /\ MissingRequired) =>
        /\ outcome.exc.msg = <<"Missing required parameter ", "'", FirstAbsent, "'">>
        /\ (op = <<"post", "customfields">> /\ args.title = None) => outcome.exc.msg[3] = "title"
        /\ (op \in {<<"post", "folders_by_folderid_folders">>, <<"post", "folders_by_folderid_tasks">>}
              /\ args.folderId = None) => outcome.exc.msg[3] = "folderId"

\* C20 witness: post_customfields without title and without type failed.
C20_Witness ==
    /\ pc = "done"
    /\ op = <<"post", "customfields">>
    /\ args.title = None
    /\ args.type = None
    /\ outcome.kind = "raise"

\* C15: list_tools returns the 35 endpoint operations, each once and nothing
\* else (not list_tools itself), and issues no HTTP call.
C15_ListToolsExact ==
    (pc = "done" /\ op = <<"list", "tools">>) =>
        /\ outcome.kind = "return"
        /\ Range(outcome.value.elems) = Operations
        /\ Len(outcome.value.elems) = Cardinality(Operations)
        /\ Cardinality(Operations) = 35
        /\ <<"list", "tools">> \notin Range(outcome.value.elems)
        /\ calls = 0
        /\ request = Unset
        /\ nHttp = nPassed

\* C15 witness: the tools were listed after an operation had issued a call.
C15_Witness ==
    /\ pc = "done"
    /\ op = <<"list", "tools">>
    /\ nHttp = 1
    /\ Len(outcome.value.elems) = 35

\* C17: the steps of an invocation come in the order validate and build, HTTP
\* call, response, status check, decode: the status check acts on a response
\* received; decoding happens only past a status check that succeeded; a
\* non-success response ends in the status check's error, whether or not its
\* body can be decoded.
C17_StepOrder ==
    [][ /\ pc' = "call" => (pc = "idle" /\ calls' = 0 /\ request' # Unset)
        /\ pc' = "sent" => (pc = "call" /\ request' = request /\ response' = Unset)
        /\ pc' = "received" => (pc = "sent" /\ calls = 1 /\ outcome' = Unset)
        /\ pc' = "checked" => (pc = "received" /\ is_success(response) /\ outcome' = Unset)
        /\ (pc = "received" /\ ~is_success(response)) =>
              (pc' = "done" /\ outcome'.kind = "raise" /\ outcome'.exc.ty = "HTTPStatusError")
        /\ pc' = "done" =>
              \/ pc = "idle" /\ outcome'.kind = "raise" /\ outcome'.exc.ty = "ValueError"
                   /\ request' = Unset
              \/ pc = "received" /\ ~is_success(response)
              \/ pc = "checked" /\ is_success(response)
                   /\ outcome'.kind = "return" <=> IsJson(response.text)
      ]_vars

\* C17 witness: a 500 whose body is no JSON ended a create as the status check's error.
C17_Witness ==
    /\ pc = "done"
    /\ op = <<"post", "folders_by_folderid_folders">>
    /\ response # Unset
    /\ response.status_code = 500
    /\ ~IsJson(response.text)
    /\ outcome.kind = "raise"
    /\ outcome.exc.ty = "HTTPStatusError"

\* the invocation in progress repeats the remembered one: same operation, same arguments
Repeats == op # NoOp /\ prev # Unset /\ prev.op = op /\ prev.args = args

\* the outcome o is what the response r alone determines
OwnOutcome(o, r) ==
    /\ r # Unset
    /\ (is_success(r) /\ IsJson(r.text)) =>
          (o.kind = "return" /\ Dumps(o.value) = r.text)
    /\ ~is_success(r) =>
          (o.kind = "raise" /\ o.exc.ty = "HTTPStatusError"
             /\ o.exc.status_code = r.status_code)

\* C11: the request of an invocation (verb, URL, query parameters, body) is
\* the one an earlier invocation of the same operation with the same arguments
\* built, whatever happened in between and however that one ended; with an
\* absent required argument, neither builds one.
C11_RequestDependsOnArgsOnly ==
    (Repeats /\ pc # "idle") => request = prev.request

\* C11 witness: a call repeats one that got a non-success response, with
\* another invocation in between.
C11_Witness ==
    /\ pc = "sent"
    /\ Repeats
    /\ ~prev.last
    /\ prev.response # Unset
    /\ ~is_success(prev.response)
    /\ Len(request.params.items) > 0

\* C13: of two consecutive invocations of one operation with the same
\* arguments, each issues its own HTTP call and each ends with what its own
\* response determines, also when the two responses differ.
C13_NoCaching ==
    (pc = "done" /\ Repeats /\ prev.last /\ ~MissingRequired) =>
        /\ calls = 1
        /\ prev.calls = 1
        /\ nHttp >= 2
        /\ OwnOutcome(outcome, response)
        /\ OwnOutcome(prev.outcome, prev.response)

\* C13 witness: the same call twice in a row returned two different bodies.
C13_Witness ==
    /\ pc = "done"
    /\ Repeats
    /\ prev.last
    /\ prev.outcome.kind = "return"
    /\ outcome.kind = "return"
    /\ prev.outcome.value # outcome.value
    /\ prev.response # response

\* the operations that build the body mapping from their named parameters
BodyOps ==
    { <<"put", "contacts_by_contactid">>, <<"put", "users_by_userid">>, <<"post", "groups">>,
      <<"put", "groups_by_groupid">>, <<"put", "groups_bulk">>, <<"post", "invitations">>,
      <<"put", "invitations_by_invitationid">>, <<"put", "a_ccount">>,
      <<"post", "folders_by_folderid_folders">>, <<"put", "folders_by_folderid">>,
      <<"put", "tasks_by_taskid">>, <<"post", "folders_by_folderid_tasks">> }

\* the operation hands the caller's request_body to the transport as the payload
ForwardsBody == "request_body" \in DOMAIN args

\* C21: each argument is in one part of the request sent. A path identifier is
\* in the URL path, and is no key of the query parameters or of a body mapping
\* the operation built; an operation that builds the body mapping from its
\* named parameters sends a mapping as body and empty query parameters; a GET
\* or DELETE operation sends no body.
C21_OnePartPerArgument ==
    pc = "sent" =>
        LET template == Endpoint(op)[2] IN
        /\ \A p \in DOMAIN args \cap PathIdentifiers :
            /\ \E i \in 1..Len(request.url) :
                  template[i] = "{}" /\ request.url[i] = Format(args[p])[1]
            /\ p \notin Keys(request.params.items)
            /\ (request.data.ty = "dict" /\ ~ForwardsBody) => p \notin Keys(request.data.items)
        /\ op \in BodyOps =>
            /\ request.data.ty = "dict"
            /\ request.params = Dict(<<>>)
        /\ op[1] \in {"get", "delete"} => request.data = Unset

\* C21 witness: an update of a task went out with a field in its body, the
\* identifier in its path and nothing in its query parameters.
C21_Witness ==
    /\ pc = "sent"
    /\ op = <<"put", "tasks_by_taskid">>
    /\ request.url = <<base_url, "/", "tasks", "/", "a">>
    /\ Len(request.data.items) > 0
    /\ request.params = Dict(<<>>)

\* the required arguments that are no path identifier, by operation, and the
\* part of the request that carries them
RequiredFields ==
    { [op |-> <<"post", "groups">>, name |-> "title", part |-> "data"],
      [op |-> <<"post", "invitations">>, name |-> "email", part |-> "data"],
      [op |-> <<"put", "groups_bulk">>, name |-> "members", part |-> "data"],
      [op |-> <<"post", "folders_by_folderid_folders">>, name |-> "title", part |-> "data"],
      [op |-> <<"post", "folders_by_folderid_tasks">>, name |-> "title", part |-> "data"],
      [op |-> <<"post", "customfields">>, name |-> "title", part |-> "params"],
      [op |-> <<"post", "customfields">>, name |-> "type", part |-> "params"] }

\* the entries of a part of the request when that part is a mapping
PartEntries(part) ==
    IF part = "params" THEN Range(request.params.items)
    ELSE IF request.data.ty = "dict" THEN Range(request.data.items)
    ELSE {}

\* C22: every HTTP call issued carries each required argument of its operation
\* that is no path identifier, under the parameter's name and with the caller's
\* value, in the body (groups, invitations, groups_bulk, folders, tasks) or in
\* the query parameters (customfields).
C22_RequiredFieldSent ==
    pc = "sent" =>
        \A f \in RequiredFields :
            f.op = op => <<f.name, args[f.name]>> \in PartEntries(f.part)

\* C22 witness: a group was created with the empty string as its title.
C22_Witness ==
    /\ pc = "sent"
    /\ op = <<"post", "groups">>
    /\ args.title = Str("")
    /\ <<"title", Str("")>> \in Range(request.data.items)

\* the update operations that build their body from optional parameters only
UpdateOps ==
    { <<"put", "users_by_userid">>, <<"put", "a_ccount">>, <<"put", "contacts_by_contactid">>,
      <<"put", "groups_by_groupid">>, <<"put", "invitations_by_invitationid">>,
      <<"put", "folders_by_folderid">>, <<"put", "tasks_by_taskid">> }

\* the invocation in progress is an update, validly addressed, with every
\* optional argument absent
NothingToUpdate ==
    /\ op \in UpdateOps
    /\ ~MissingRequired
    /\ \A p \in Optional(op) : args[p] = None

\* C23: an update operation invoked with every optional argument absent (and
\* its identifier, if it has one, present) does not fail validation and does
\* not skip its call: it builds a PUT request whose body is the empty mapping,
\* and issues it as its one HTTP call.
C23_EmptyUpdateSent ==
    NothingToUpdate =>
        /\ request # Unset
        /\ request.verb = "PUT"
        /\ request.data = Dict(<<>>)
        /\ pc # "call" => calls = 1
        /\ pc = "done" => ~(outcome.kind = "raise" /\ outcome.exc.ty = "ValueError")

\* C23 witness: a task update with nothing to update has been sent with an
\* empty body.
C23_Witness ==
    /\ NothingToUpdate
    /\ pc = "sent"
    /\ op = <<"put", "tasks_by_taskid">>
    /\ calls = 1
    /\ request.data = Dict(<<>>)

\* the update fields of a custom field
CustomFieldUpdateFields ==
    {"title", "type", "changeScope", "spaceId", "sharing", "addShareds", "removeShareds",
     "settings", "addMirrors", "removeMirrors"}

\* the named fields of the creation of a custom field
CustomFieldCreateFields == {"title", "type", "spaceId", "sharing", "shareds", "settings"}

\* the query parameters of the request are exactly the present ones of Fields,
\* each with the caller's value
ParamsAre(Fields) ==
    /\ Keys(request.params.items) = {p \in Fields : args[p] # None}
    /\ \A p \in Fields : args[p] # None => <<p, args[p]>> \in Range(request.params.items)

\* C24: the update of a custom field sends each present update field as a
\* query parameter and the empty mapping as body; the creation of a custom
\* field sends its present named fields as query parameters and the caller's
\* request_body, nothing else, as payload.
C24_CustomFieldsInQuery ==
    pc = "sent" =>
        /\ op = <<"put", "customfields_by_customfieldid">> =>
            /\ ParamsAre(CustomFieldUpdateFields)
            /\ request.data = Dict(<<>>)
        /\ op = <<"post", "customfields">> =>
            /\ ParamsAre(CustomFieldCreateFields)
            /\ request.data = args.request_body

\* C24 witness: a custom field was updated with all ten fields present.
C24_Witness ==
    /\ pc = "sent"
    /\ op = <<"put", "customfields_by_customfieldid">>
    /\ Keys(request.params.items) = CustomFieldUpdateFields
    /\ request.data = Dict(<<>>)

\* the operations on the resource (or the collection) that o is on: the
\* methods whose names differ from o's in the verb prefix only
Family(o) == {o2 \in Operations : o2[2] = o[2]}

\* arguments for o with the path identifiers of the invocation in progress,
\* some value for its other required parameters, and no optional one
SiblingArgs(o) ==
    [p \in Required(o) \cup Optional(o) |->
        IF p \in PathIdentifiers /\ p \in DOMAIN args THEN args[p]
        ELSE IF p \in Required(o) THEN Str("x")
        ELSE None]

\* C25: the operations of one family agree on the address: whenever an
\* operation has issued its call, every other operation of its family (get, put
\* and delete of a contact, user, group, invitation, custom field, task or
\* folder; get and post of the groups, invitations, workflows or custom fields
\* collection), invoked with the same identifier value, sends to the identical
\* URL with a different verb.
C25_FamilySharesUrl ==
    pc = "sent" =>
        \A o \in Family(op) \ {op} :
            LET plan == Dispatch(o, SiblingArgs(o)) IN
            /\ plan.kind = "call"
            /\ plan.request.url = request.url
            /\ plan.request.verb # request.verb

\* C25 witness: a task was deleted by the identifier 0; its family has the
\* three operations get, put, delete.
C25_Witness ==
    /\ pc = "sent"
    /\ op = <<"delete", "tasks_by_taskid">>
    /\ args.taskId = PyInt(0)
    /\ request.url = <<base_url, "/", "tasks", "/", "0">>
    /\ Cardinality(Family(op)) = 3

\* the operations all of whose parameters are optional
NoRequiredOps ==
    { <<"get", "contacts">>, <<"get", "groups">>, <<"get", "invitations">>,
      <<"get", "a_ccount">>, <<"put", "a_ccount">>, <<"get", "workflows">>,
      <<"post", "workflows">>, <<"get", "customfields">>, <<"get", "folders">>,
      <<"get", "tasks">> }

\* C26: the operations without required parameters are these ten, and an
\* invocation of one of them, whatever its arguments (all absent included),
\* never ends with a validation failure: it builds a request and issues it as
\* its one HTTP call.
C26_NoRequiredNeverFailsValidation ==
    /\ op # NoOp => (op \in NoRequiredOps <=> Required(op) = {})
    /\ op \in NoRequiredOps =>
        /\ request # Unset
        /\ calls = (IF pc = "call" THEN 0 ELSE 1)
        /\ pc = "done" => ~(outcome.kind = "raise" /\ outcome.exc.ty = "ValueError")

\* C26 witness: the account was read with no argument at all, by one call.
C26_Witness ==
    /\ pc = "done"
    /\ op = <<"get", "a_ccount">>
    /\ args.fields = None
    /\ calls = 1
    /\ request.params = Dict(<<>>)

\* C27: the bootstrap builds one WrikeApp, named "wrike" and bound to the
\* integration named "wrike" over the environment store, and one server around
\* that same app instance; mcp.run() is executed once when, and only when, the
\* module was loaded as the main program, after the objects are built; and
\* until the module is loaded no method of the facade was entered and no HTTP
\* call was issued.
C27_BootstrapBuildsAndGuardsRun ==
    /\ boot.apps <= 1
    /\ boot.servers <= 1
    /\ boot.app_instance # Unset =>
        /\ boot.app_instance.name = "wrike"
        /\ boot.app_instance.integration = boot.integration_instance
        /\ boot.integration_instance.name = "wrike"
        /\ boot.integration_instance.store = boot.env_store
        /\ base_url = BaseUrl
    /\ boot.mcp # Unset => boot.mcp.app_instance = boot.app_instance
    /\ Loaded => boot.apps = 1 /\ boot.servers = 1
    /\ boot.runs = (IF Loaded /\ boot.name = "__main__" THEN 1 ELSE 0)
    /\ boot.at = "running" <=> boot.runs = 1
    /\ ~Loaded => nHttp = 0 /\ nPassed = 0 /\ pc = "idle" /\ op = NoOp

\* C27 witness: the module was imported; its objects are built, the server was
\* not started, and the facade has since issued a call.
C27_Witness ==
    /\ boot.at = "loaded"
    /\ boot.name = "universal_mcp_wrike.server"
    /\ boot.mcp # Unset
    /\ boot.mcp.app_instance = boot.app_instance
    /\ boot.runs = 0
    /\ nHttp = 1

====
